---------------------------- MODULE Spec2Model ----------------------------
(***************************************************************************)
(* A model of gnatprove2xls.py: the line-oriented parser of a GNATprove    *)
(* report (parse_gnatprove_report) as a state machine, with the regular    *)
(* expressions of the program evaluated character by character on the      *)
(* text of each line.                                                      *)
(***************************************************************************)
EXTENDS Integers, Sequences, FiniteSets, TLC

(***************************************************************************)
(* Python values.  None is the empty tuple and a present optional value v  *)
(* is <<v>>, so that both compare with each other.                         *)
(***************************************************************************)
None == <<>>

Some(v) == <<v>>

Min(S) == CHOOSE x \in S : \A y \in S : x <= y

\* The greatest number of S: the least of their negatives.
Max(S) == 0 - Min({0 - y : y \in S})

(***************************************************************************)
(* Text.  A Python string is the sequence of the code points of its        *)
(* characters, and so is every text of the model: the line "A1\n" is       *)
(* <<65, 49, 10>>.  Text gives the code points of a text written in ASCII. *)
(* A count is a number below 2^31.                                         *)
(***************************************************************************)
Char(s, i) == SubSeq(s, i, i)

\* The characters U+0020 to U+005F and U+0061 to U+007E, in their order.
AsciiLow ==
    " !\"#$%&'()*+,-./0123456789:;<=>?@ABCDEFGHIJKLMNOPQRSTUVWXYZ[\\]^_"

AsciiHigh == "abcdefghijklmnopqrstuvwxyz{|}~"

\* ord(c): the code point of the ASCII character c.
ord(c) ==
    IF c = "\t" THEN 9
    ELSE IF c = "\n" THEN 10
    ELSE IF c = "\f" THEN 12
    ELSE IF c = "\r" THEN 13
    ELSE IF \E i \in 1..Len(AsciiLow) : Char(AsciiLow, i) = c
    THEN 31 + (CHOOSE i \in 1..Len(AsciiLow) : Char(AsciiLow, i) = c)
    ELSE 96 + (CHOOSE i \in 1..Len(AsciiHigh) : Char(AsciiHigh, i) = c)

\* The text of a string literal of the program.
Text(s) == [i \in 1..Len(s) |-> ord(Char(s, i))]

Newline == ord("\n")

Underscore == ord("_")

Signs == {ord("+"), ord("-")}

\* The digits '{}'.format() writes a number with.
Digits == Text("0123456789")

\* The decimal digits of Unicode (category Nd, Unicode 14 of the
\* interpreter) are the digits 0 to 9 of 66 scripts, each ten code points
\* in a row: these are the code points of the 66 digits 0, from U+0030 on.
DecimalZeros ==
    {48, 1632, 1776, 1984, 2406, 2534, 2662, 2790, 2918, 3046, 3174, 3302,
     3430, 3558, 3664, 3792, 3872, 4160, 4240, 6112, 6160, 6470, 6608,
     6784, 6800, 6992, 7088, 7232, 7248, 42528, 43216, 43264, 43472, 43504,
     43600, 44016, 65296, 66720, 68912, 69734, 69872, 69942, 70096, 70384,
     70736, 70864, 71248, 71360, 71472, 71904, 72016, 72784, 73040, 73120,
     92768, 92864, 93008, 120782, 120792, 120802, 120812, 120822, 123200,
     123632, 125264, 130032}

\* \d matches c, and int() converts it.
IsDigit(c) == \E z \in DecimalZeros : z <= c /\ c <= z + 9

\* The number the decimal digit c stands for.
DigitVal(c) == c - (CHOOSE z \in DecimalZeros : z <= c /\ c <= z + 9)

\* The white space of str.strip(): U+0009 to U+000D, U+001C to U+0020,
\* U+0085, U+00A0, U+1680, U+2000 to U+200A, U+2028, U+2029, U+202F, U+205F
\* and U+3000.
Whitespace ==
    (9..13) \cup (28..32) \cup {133, 160, 5760} \cup (8192..8202)
        \cup {8232, 8233, 8239, 8287, 12288}

\* The white space int() skips around a number: not U+001C to U+001F.
IntWhitespace == Whitespace \ (28..31)

IsSpace(c) == c \in Whitespace

\* The literal lit stands in s at position i.
HasAt(s, i, lit) ==
    /\ i + Len(lit) - 1 <= Len(s)
    /\ SubSeq(s, i, i + Len(lit) - 1) = lit

(***************************************************************************)
(* The regular expressions of the program, as sequences of atoms:          *)
(*   Bol  ^        Eol  $        Lit(t)  the literal text t                *)
(*   Num  (\d+)    Txt  (.+)     both greedy, both capturing groups        *)
(***************************************************************************)
Bol == [t |-> "bol", s |-> <<>>]

Eol == [t |-> "eol", s |-> <<>>]

Num == [t |-> "num", s |-> <<>>]

Txt == [t |-> "txt", s |-> <<>>]

Lit(text) == [t |-> "lit", s |-> Text(text)]

\* The summary with any text as its count.
analysis_re_any_count == <<Bol, Lit("Analyzed "), Txt, Lit(" units"), Eol>>

\* src/gnatprove2xls.py:23-30
analysis_re == <<Bol, Lit("Analyzed "), Num, Lit(" units"), Eol>>

\* The unit header without its end anchor.
unit_re_unanchored ==
    <<Bol, Lit("in unit "), Txt, Lit(", "), Num,
      Lit(" subprograms and packages out of "), Num, Lit(" analyzed")>>

unit_re == <<Bol, Lit("in unit "), Txt, Lit(", "), Num,
             Lit(" subprograms and packages out of "), Num,
             Lit(" analyzed"), Eol>>

file_re == <<Bol, Lit("  "), Txt, Lit(" at "), Txt, Lit(":"), Num>>

gen_file_re == <<Bol, Lit("  "), Txt, Lit(" at "), Txt, Lit(":"), Num,
                 Lit(", instantiated at "), Txt, Lit(":"), Num>>

flow_re == <<Lit("flow analyzed ("), Num, Lit(" errors and "), Num,
             Lit(" warnings)")>>

proved_re == <<Lit("proved ("), Num, Lit(" checks)"), Eol>>

\* The not-proved clause without its end anchor.
not_proved_re_unanchored ==
    <<Lit("not proved, "), Num, Lit(" checks out of "), Num, Lit(" proved")>>

not_proved_re == <<Lit("not proved, "), Num, Lit(" checks out of "), Num,
                   Lit(" proved"), Eol>>

suppr_msg_re == <<Bol, Lit("    "), Txt, Lit(":"), Num, Lit(":"), Num,
                  Lit(": "), Txt, Eol>>

(***************************************************************************)
(* Matching, as Python's re does it.                                       *)
(***************************************************************************)
NoMatch == [ok |-> FALSE, g |-> <<>>]

\* $ matches at the end of the string and before a newline that ends it.
AtEnd(s, i) == i = Len(s) + 1 \/ (i = Len(s) /\ s[i] = Newline)

\* \d is a decimal digit; . is any character but a newline.
InClass(t, c) == IF t = "num" THEN IsDigit(c) ELSE c # Newline

\* The last position of the longest run of class t that starts at i.
RunEnd(s, i, t) ==
    LET stop == {j \in i..Len(s) : ~InClass(t, s[j])}
    IN  IF stop = {} THEN Len(s) ELSE Min(stop) - 1

\* Atoms k.. of re matched against s from position i: the groups of the
\* match the backtracking search finds first (a greedy group takes the
\* longest text that lets the rest of the expression match).
RECURSIVE MatchFrom(_, _, _, _)
MatchFrom(re, k, s, i) ==
    IF k > Len(re) THEN [ok |-> TRUE, g |-> <<>>]
    ELSE LET a == re[k] IN
         CASE a.t = "bol" ->
                  IF i = 1 THEN MatchFrom(re, k + 1, s, i) ELSE NoMatch
           [] a.t = "eol" ->
                  IF AtEnd(s, i) THEN MatchFrom(re, k + 1, s, i) ELSE NoMatch
           [] a.t = "lit" ->
                  IF HasAt(s, i, a.s)
                  THEN MatchFrom(re, k + 1, s, i + Len(a.s))
                  ELSE NoMatch
           [] OTHER ->
                  LET ends == {j \in i..RunEnd(s, i, a.t) :
                                   MatchFrom(re, k + 1, s, j + 1).ok}
                  IN  IF ends = {} THEN NoMatch
                      ELSE LET j == Max(ends)
                           IN  [ok |-> TRUE,
                                g  |-> <<SubSeq(s, i, j)>>
                                         \o MatchFrom(re, k + 1, s, j + 1).g]

\* re.match: at the start of the string.
match(re, s) == MatchFrom(re, 1, s, 1)

\* re.search: at the first position where the expression matches.
search(re, s) ==
    LET starts == {i \in 1..(Len(s) + 1) : MatchFrom(re, 1, s, i).ok}
    IN  IF starts = {} THEN NoMatch ELSE MatchFrom(re, 1, s, Min(starts))

\* s without the characters of ws at both ends.
Trim(s, ws) ==
    IF Len(s) = 0 THEN s
    ELSE IF s[1] \notin ws /\ s[Len(s)] \notin ws THEN s
    ELSE LET keep == {i \in 1..Len(s) : s[i] \notin ws}
         IN  IF keep = {} THEN <<>> ELSE SubSeq(s, Min(keep), Max(keep))

\* str.strip(): without the white space at both ends.
strip(s) == Trim(s, Whitespace)


\* The most digits int() converts (sys.int_info.default_max_str_digits of
\* the interpreter): a string with more raises ValueError.
int_max_str_digits == 4300

\* The text of a number without its sign.
Unsigned(t) ==
    IF Len(t) > 0 /\ t[1] \in Signs THEN SubSeq(t, 2, Len(t))
    ELSE t

\* Digits, with single underscores between them.
IsNumeral(b) ==
    /\ Len(b) > 0
    /\ \A i \in 1..Len(b) :
           \/ IsDigit(b[i])
           \/ /\ b[i] = Underscore
              /\ 1 < i
              /\ i < Len(b)
              /\ IsDigit(b[i - 1])
              /\ IsDigit(b[i + 1])

\* int() accepts the string: a numeral of at most int_max_str_digits
\* digits, with or without a sign, with or without white space around it.
IntAccepts(s) ==
    /\ IsNumeral(Unsigned(Trim(s, IntWhitespace)))
    /\ Cardinality({i \in 1..Len(s) : IsDigit(s[i])}) <= int_max_str_digits

\* The character adds nothing to the number: an underscore or a digit 0.
IsLeading(c) == c = Underscore \/ c \in DecimalZeros

\* The number of the digits i.. of numeral b, after the digits before them
\* gave acc.
RECURSIVE IntFrom(_, _, _)
IntFrom(b, i, acc) ==
    IF i > Len(b) THEN acc
    ELSE IF b[i] = Underscore THEN IntFrom(b, i + 1, acc)
    ELSE IntFrom(b, i + 1, 10 * acc + DigitVal(b[i]))

\* The number of numeral b: of its digits from the first that is not 0.
IntOf(b) ==
    IF \A i \in 1..Len(b) : IsLeading(b[i]) THEN 0
    ELSE IntFrom(b, Min({i \in 1..Len(b) : ~IsLeading(b[i])}), 0)

\* int() of a string it accepts.
int(s) ==
    IF Len(Trim(s, IntWhitespace)) > 0
          /\ Trim(s, IntWhitespace)[1] = ord("-")
    THEN 0 - IntOf(Unsigned(Trim(s, IntWhitespace)))
    ELSE IntOf(Unsigned(Trim(s, IntWhitespace)))


(***************************************************************************)
(* The lines the model reads.  Each is a line as iteration over the file   *)
(* yields it, with its newline.  The sets name the shape each line is      *)
(* written in; the program itself only ever sees the text.                 *)
(***************************************************************************)
\* Two summaries: of 3 units, and of 12 units with the 2 written as the
\* Arabic-Indic digit U+0662.
SummaryLines ==
    {Text("Analyzed 3 units\n"),
     Text("Analyzed 1") \o <<1634>> \o Text(" units\n")}

HeaderLines ==
    {Text("in unit A, 1 subprograms and packages out of 2 analyzed\n"),
     Text("in unit B, 0 subprograms and packages out of 1 analyzed\n")}

\* Plain items: with no clause, with a flow and a proof clause, with a flow
\* and a not-proved clause, with a not-proved clause that counts more
\* proved checks than checks, and with the words of a not-proved clause
\* before a proved clause.
PlainItemLines ==
    {Text("  P at a.adb:1 skipped\n"),
     Text("  G at a.adb:3 flow analyzed (0 errors and 1 warnings) and proved (3 checks)\n"),
     Text("  H at a.adb:4 flow analyzed (2 errors and 0 warnings) and not proved, 2 checks out of 5 proved\n"),
     Text("  K at a.adb:5 not proved, 5 checks out of 2 proved\n"),
     Text("  T at a.adb:8 not proved, 1 checks out of 2 proved (4 checks)\n")}

GenericItemLines ==
    {Text("  Q at g.ads:6, instantiated at a.adb:7 proved (1 checks)\n")}

\* A suppression whose message ends with white space: a space, a no-break
\* space (U+00A0) and an em space (U+2003).
SupprLines == {Text("    a.adb:1:2: ok ") \o <<160, 8195>> \o Text("\n")}

\* A suppression whose message reads like the tail of an item line.
ItemSupprLines == {Text("    a.adb:3:4: x at b.adb:9\n")}

\* Lines in none of the four shapes: free text, an empty line, an item
\* indented by one space, a unit header with text after it.
OtherLines ==
    {Text("   suppressed messages:\n"),
     Text("\n"),
     Text(" Q at a.adb:1 proved (1 checks)\n"),
     Text("in unit C, 1 subprograms and packages out of 2 analyzed (partly)\n")}

\* Lines in the shape of a summary, a unit header, an item clause and a
\* suppression, with a word where the count is expected.
BadSummaryLines == {Text("Analyzed x units\n")}

BadHeaderLines ==
    {Text("in unit A, x subprograms and packages out of 2 analyzed\n")}

BadClauseLines == {Text("  P at a.adb:1 proved (x checks)\n")}

BadSupprLines == {Text("    a.adb:x:2: ok\n")}

BadCountLines ==
    BadSummaryLines \cup BadHeaderLines \cup BadClauseLines \cup BadSupprLines

Twice(s) == s \o s

\* The text s, n times.
RECURSIVE Repeat(_, _)
Repeat(s, n) ==
    IF n = 0 THEN <<>>
    ELSE IF n % 2 = 0 THEN Twice(Repeat(s, n \div 2))
    ELSE Twice(Repeat(s, n \div 2)) \o s

\* A unit header whose first count has one digit more than int() converts.
LongCountLines ==
    {Text("in unit B, ") \o Repeat(Text("1"), int_max_str_digits + 1)
         \o Text(" subprograms and packages out of 1 analyzed\n")}

ItemLines == PlainItemLines \cup GenericItemLines

\* An item line whose flow clause has a word where its first count is
\* expected, and whose proof clause is well formed.
BadFlowLines ==
    {Text("  P at a.adb:1 flow analyzed (x errors and 1 warnings) and proved (3 checks)\n")}

\* A suppression with a word where its line number is expected, whose
\* message reads like the tail of an item line.
BadSupprItemLines == {Text("    a.adb:x:2: m at b.adb:9\n")}

\* More decimal digits than int() converts.
LongNumber == Repeat(Text("1"), int_max_str_digits + 1)

\* Lines with such a number at each place where the program converts a
\* count with int(): lines 49, 60, 61, 103, 104, 109-110, 115 and 116.
LongSummaryLines == {Text("Analyzed ") \o LongNumber \o Text(" units\n")}

LongTotalLines ==
    {Text("in unit B, 1 subprograms and packages out of ") \o LongNumber
         \o Text(" analyzed\n")}

LongFlowLines ==
    {Text("  Z at z.adb:2 flow analyzed (") \o LongNumber
         \o Text(" errors and 1 warnings)\n"),
     Text("  Z at z.adb:2 flow analyzed (1 errors and ") \o LongNumber
         \o Text(" warnings)\n")}

LongProvedLines ==
    {Text("  Z at z.adb:2 proved (") \o LongNumber \o Text(" checks)\n")}

LongNotProvedLines ==
    {Text("  Z at z.adb:2 not proved, ") \o LongNumber
         \o Text(" checks out of 2 proved\n"),
     Text("  Z at z.adb:2 not proved, 1 checks out of ") \o LongNumber
         \o Text(" proved\n")}

LongConvertedLines ==
    LongCountLines \cup LongSummaryLines \cup LongTotalLines
        \cup LongFlowLines \cup LongProvedLines \cup LongNotProvedLines

\* Lines with such a number where the program keeps the digits as text:
\* the line number of an item and of its instantiation (lines 73, 75),
\* the line number and the column of a suppression (lines 125, 126).
LongItemLines ==
    {Text("  Z at z.adb:") \o LongNumber \o Text(" skipped\n"),
     Text("  Q at g.ads:6, instantiated at a.adb:") \o LongNumber
         \o Text(" proved (1 checks)\n")}

LongSupprLines ==
    {Text("    a.adb:") \o LongNumber \o Text(":2: ok\n"),
     Text("    a.adb:1:") \o LongNumber \o Text(": ok\n")}

LongTextLines == LongItemLines \cup LongSupprLines

\* The lines read where the handling of ill-formed counts is studied.
FormatLines ==
    HeaderLines \cup GenericItemLines \cup SupprLines \cup BadCountLines
        \cup BadFlowLines \cup BadSupprItemLines \cup LongConvertedLines
        \cup LongTextLines

Lines ==
    SummaryLines \cup HeaderLines \cup ItemLines \cup SupprLines
        \cup ItemSupprLines \cup OtherLines \cup BadCountLines
        \cup LongCountLines

\* The lines read before the loop ends (the model's bound on the input).
MaxLines == 5

\* The lines of the two reports of a concatenation, together.
MaxCatLines == 3

\* Every line of the model.
KnownLines == Lines \cup FormatLines

(***************************************************************************)
(* What each expression finds in a line, as the loop body computes it      *)
(* (lines 47, 51, 65, 66, 100, 106, 112, 120).                             *)
(***************************************************************************)
Recognize(l) ==
    [analysis   |-> match(analysis_re, l),
     unit       |-> match(unit_re, l),
     file       |-> match(file_re, l),
     gen_file   |-> match(gen_file_re, l),
     flow       |-> search(flow_re, l),
     proved     |-> search(proved_re, l),
     not_proved |-> search(not_proved_re, l),
     suppr_msg  |-> match(suppr_msg_re, l)]

\* The same, computed once for the lines of the model.
Recognized == [l \in KnownLines |-> Recognize(l)]

Found(l) == IF l \in KnownLines THEN Recognized[l] ELSE Recognize(l)

\* Every text a group captured in a line of the model, and whether int()
\* accepts it, computed once.
Captured ==
    UNION {UNION {{Recognized[l][p].g[i] : i \in 1..Len(Recognized[l][p].g)} :
                      p \in DOMAIN Recognized[l]} : l \in KnownLines}

Convertible == [s \in Captured |-> IntAccepts(s)]

\* int(s) raises no ValueError.
IsDecimal(s) == IF s \in Captured THEN Convertible[s] ELSE IntAccepts(s)

\* The patterns that match line l at its start (the four tests of the loop
\* body at lines 48, 52, 67 and 121).
Shapes(l) ==
    {p \in {"analysis", "unit", "item", "suppr_msg"} :
        IF p = "item" THEN Found(l).file.ok \/ Found(l).gen_file.ok
        ELSE Found(l)[p].ok}

(***************************************************************************)
(* The loop body of parse_gnatprove_report on one line.  st holds the      *)
(* function's results and currentUnit and the exception raised, if any;    *)
(* once one is raised the rest of the body is skipped.  m is what the      *)
(* block's expression found in the line, f what all of them found.         *)
(***************************************************************************)
Raise(st, e) == [st EXCEPT !.exc = e]

\* Only the first summary line sets the count.
AnalysisBlockFirstOnly(st, m) ==
    IF st.exc # "" \/ ~m.ok THEN st
    ELSE IF ~IsDecimal(m.g[1]) THEN Raise(st, "ValueError")
    ELSE [st EXCEPT !.results.numUnitsAnalyzed =
                        IF @ = None THEN Some(int(m.g[1])) ELSE @]

\* Lines 47-49.
AnalysisBlock(st, m) ==
    IF st.exc # "" \/ ~m.ok THEN st
    ELSE IF ~IsDecimal(m.g[1]) THEN Raise(st, "ValueError")
    ELSE [st EXCEPT !.results.numUnitsAnalyzed = Some(int(m.g[1]))]

\* The previous unit is not saved.
SavePreviousNever(units, cu) == units

\* Lines 54-55: the previous unit is saved.
SavePrevious(units, cu) == IF cu # None THEN Append(units, cu[1]) ELSE units

\* Lines 58-63.
NewUnit(m) ==
    [name        |-> m.g[1],
     numAnalyzed |-> int(m.g[2]),
     numTotal    |-> int(m.g[3]),
     items       |-> <<>>]

\* The unit's dictionary is filled in again instead of a new one being made:
\* every saved unit is that same dictionary.
UnitBlockAliased(st, m) ==
    IF st.exc # "" \/ ~m.ok THEN st
    ELSE IF ~(IsDecimal(m.g[2]) /\ IsDecimal(m.g[3]))
    THEN Raise([st EXCEPT !.results.units = SavePrevious(@, st.currentUnit)],
               "ValueError")
    ELSE [st EXCEPT
            !.results.units =
                [i \in 1..Len(SavePrevious(@, st.currentUnit)) |-> NewUnit(m)],
            !.currentUnit = Some(NewUnit(m))]

\* Lines 51-63.  The previous unit is saved (line 55) before the counts are
\* converted (lines 60-61): a ValueError leaves it saved and still current.
UnitBlock(st, m) ==
    IF st.exc # "" \/ ~m.ok THEN st
    ELSE IF ~(IsDecimal(m.g[2]) /\ IsDecimal(m.g[3]))
    THEN Raise([st EXCEPT !.results.units = SavePrevious(@, st.currentUnit)],
               "ValueError")
    ELSE [st EXCEPT !.results.units = SavePrevious(@, st.currentUnit),
                    !.currentUnit = Some(NewUnit(m))]

\* Lines 70-83 and 85-98.
NewItem(name, fileName, lineNumber, instFileName, instLineNumber) ==
    [name            |-> name,
     fileName        |-> fileName,
     lineNumber      |-> lineNumber,
     instFileName    |-> instFileName,
     instLineNumber  |-> instLineNumber,
     suppressions    |-> <<>>,
     numFlowErrors   |-> 0,
     numFlowWarnings |-> 0,
     numChecks       |-> 0,
     numProvedChecks |-> 0,
     flowAnalyzed    |-> FALSE,
     proved          |-> FALSE]

\* The plain form is taken when it matches, the generic form otherwise.
ItemOfPlainFirst(fm, gm) ==
    IF fm.ok
    THEN NewItem(fm.g[1], fm.g[2], fm.g[3], None, None)
    ELSE NewItem(gm.g[1], gm.g[2], gm.g[3], Some(gm.g[4]), Some(gm.g[5]))

\* Lines 69-98: the generic form is taken when it matches.
ItemOf(fm, gm) ==
    IF gm.ok
    THEN NewItem(gm.g[1], gm.g[2], gm.g[3], Some(gm.g[4]), Some(gm.g[5]))
    ELSE NewItem(fm.g[1], fm.g[2], fm.g[3], None, None)

\* The flow clause sets the two counts and leaves flowAnalyzed as it was.
FlowClauseCountsOnly(item, m) ==
    IF ~m.ok THEN item
    ELSE [item EXCEPT !.numFlowErrors = int(m.g[1]),
                      !.numFlowWarnings = int(m.g[2])]

\* Lines 100-104.
FlowClause(item, m) ==
    IF ~m.ok THEN item
    ELSE [item EXCEPT !.flowAnalyzed = TRUE,
                      !.numFlowErrors = int(m.g[1]),
                      !.numFlowWarnings = int(m.g[2])]

\* The proved clause sets the checks and leaves the proved checks at 0.
ProvedClauseChecksOnly(item, m) ==
    IF ~m.ok THEN item
    ELSE [item EXCEPT !.proved = TRUE,
                      !.numChecks = int(m.g[1])]

\* Lines 106-110.
ProvedClause(item, m) ==
    IF ~m.ok THEN item
    ELSE [item EXCEPT !.proved = TRUE,
                      !.numChecks = int(m.g[1]),
                      !.numProvedChecks = int(m.g[1])]

\* The two counts of the not-proved clause, swapped.
NotProvedClauseSwapped(item, m) ==
    IF ~m.ok THEN item
    ELSE [item EXCEPT !.proved = TRUE,
                      !.numChecks = int(m.g[1]),
                      !.numProvedChecks = int(m.g[2])]

\* Lines 112-116.
NotProvedClause(item, m) ==
    IF ~m.ok THEN item
    ELSE [item EXCEPT !.proved = TRUE,
                      !.numChecks = int(m.g[2]),
                      !.numProvedChecks = int(m.g[1])]

\* Every count a clause converts with int() is a decimal number.
CountsAreDecimal(m) == \A i \in 1..Len(m.g) : IsDecimal(m.g[i])

\* Lines 69-116: the item a line states.
Item(f) ==
    NotProvedClause(
        ProvedClause(FlowClause(ItemOf(f.file, f.gen_file), f.flow),
                     f.proved),
        f.not_proved)

\* An item line read while there is no current unit is skipped.
ItemBlockSkipping(st, f) ==
    IF st.exc # "" \/ ~(f.file.ok \/ f.gen_file.ok) THEN st
    ELSE IF ~(CountsAreDecimal(f.flow) /\ CountsAreDecimal(f.proved)
                /\ CountsAreDecimal(f.not_proved))
    THEN Raise(st, "ValueError")
    ELSE IF st.currentUnit = None THEN st
    ELSE [st EXCEPT !.currentUnit[1].items = Append(@, Item(f))]

\* Lines 65-118.
ItemBlock(st, f) ==
    IF st.exc # "" \/ ~(f.file.ok \/ f.gen_file.ok) THEN st
    ELSE IF ~(CountsAreDecimal(f.flow) /\ CountsAreDecimal(f.proved)
                /\ CountsAreDecimal(f.not_proved))
    THEN Raise(st, "ValueError")
    ELSE IF st.currentUnit = None THEN Raise(st, "TypeError")
    ELSE [st EXCEPT !.currentUnit[1].items = Append(@, Item(f))]

\* Lines 123-128: the suppression a line states.
Suppression(m) ==
    [fileName   |-> m.g[1],
     lineNumber |-> m.g[2],
     column     |-> m.g[3],
     message    |-> strip(m.g[4])]

\* The suppression replaces the list of the last item.
SupprBlockReplacing(st, m) ==
    IF st.exc # "" \/ ~m.ok THEN st
    ELSE IF st.currentUnit = None THEN Raise(st, "TypeError")
    ELSE IF st.currentUnit[1].items = <<>> THEN Raise(st, "IndexError")
    ELSE [st EXCEPT
            !.currentUnit[1].items[Len(st.currentUnit[1].items)]
                .suppressions = <<Suppression(m)>>]

\* Lines 120-128.
SupprBlock(st, m) ==
    IF st.exc # "" \/ ~m.ok THEN st
    ELSE IF st.currentUnit = None THEN Raise(st, "TypeError")
    ELSE IF st.currentUnit[1].items = <<>> THEN Raise(st, "IndexError")
    ELSE [st EXCEPT
            !.currentUnit[1].items[Len(st.currentUnit[1].items)]
                .suppressions = Append(@, Suppression(m))]

\* Lines 46-128: the four blocks, one after the other.
Blocks(st, f) ==
    SupprBlock(
        ItemBlock(UnitBlock(AnalysisBlock(st, f.analysis), f.unit), f),
        f.suppr_msg)

\* Lines 46-128: one iteration of the loop, on line l.
Step(st, l) == Blocks(st, Found(l))

\* The last unit is not saved.
SaveLastNever(res, cu) == res

\* Lines 130-131: the last unit is saved at the end of the input.
SaveLast(res, cu) ==
    [res EXCEPT !.units = IF cu # None THEN Append(@, cu[1]) ELSE @]

\* The proved checks are counted from numChecks.
RECURSIVE CountFromChecksTwice(_, _, _)
CountFromChecksTwice(items, i, acc) ==
    IF i > Len(items) THEN acc
    ELSE CountFromChecksTwice(items, i + 1,
                   <<acc[1] + items[i].numFlowErrors,
                     acc[2] + items[i].numFlowWarnings,
                     acc[3] + items[i].numChecks,
                     acc[4] + items[i].numChecks,
                     acc[5] + Len(items[i].suppressions)>>)

\* Lines 159-176: the totals of a unit's items i.., added to acc.
RECURSIVE CountFrom(_, _, _)
CountFrom(items, i, acc) ==
    IF i > Len(items) THEN acc
    ELSE CountFrom(items, i + 1,
                   <<acc[1] + items[i].numFlowErrors,
                     acc[2] + items[i].numFlowWarnings,
                     acc[3] + items[i].numChecks,
                     acc[4] + items[i].numProvedChecks,
                     acc[5] + Len(items[i].suppressions)>>)

count_unit_totals(unit) == CountFrom(unit.items, 1, <<0, 0, 0, 0, 0>>)

(***************************************************************************)
(* save_results.  A quotient of two counts is kept as the fraction in      *)
(* lowest terms that the division yields (the integer 1 is the fraction    *)
(* 1/1: Python holds 1 == 1.0).  A cell is None while nothing is written   *)
(* to it, and holds the value and the style written otherwise.             *)
(***************************************************************************)
RECURSIVE gcd(_, _)
gcd(a, b) == IF b = 0 THEN a ELSE gcd(b, a % b)

\* num / denom, for denom > 0.
Quotient(num, denom) ==
    [num |-> num \div gcd(num, denom), den |-> denom \div gcd(num, denom)]

One == [num |-> 1, den |-> 1]

\* No checks count as nothing proved.
to_percent_zero_when_empty(num, denom) ==
    IF denom = 0 THEN [num |-> 0, den |-> 1] ELSE Quotient(num, denom)

\* Lines 139-143.
to_percent(num, denom) ==
    IF denom = 0 THEN One ELSE Quotient(num, denom)

\* Lines 146-156.
analysis_type(item) ==
    IF item.flowAnalyzed
    THEN (IF item.proved THEN Text("flow + proof") ELSE Text("flow only"))
    ELSE (IF item.proved THEN Text("proof only") ELSE Text("not analyzed"))

\* '{}'.format(n) of an integer n >= 0: its decimal digits.
RECURSIVE str(_)
str(n) ==
    IF n < 10 THEN <<Digits[n + 1]>>
    ELSE str(n \div 10) \o <<Digits[(n % 10) + 1]>>

\* ws.write(row, col, value, style).
Cell(value, style) == Some([value |-> value, style |-> style])

Plain(value) == Cell(value, "default")

Bold(value) == Cell(value, "bold")

Percent(value) == Cell(value, "percent")

\* Lines 187-194.
SummaryHeader ==
    <<Bold(Text("Unit Name")), Bold(Text("Analyzed")), Bold(Text("Flow Errors")),
      Bold(Text("Flow Warnings")), Bold(Text("Checks")), Bold(Text("Proved Checks")),
      Bold(Text("% Proved")), Bold(Text("Suppressions"))>>

\* Lines 198-207, t being what count_unit_totals(unit) returned.
SummaryRow(unit, t) ==
    <<Plain(unit.name),
      Plain(str(unit.numAnalyzed) \o Text("/") \o str(unit.numTotal)),
      Plain(t[1]),
      Plain(t[2]),
      Plain(t[3]),
      Plain(t[4]),
      IF t[3] > 0 THEN Percent(to_percent(t[4], t[3])) ELSE None,
      Plain(t[5])>>

\* Lines 211-219.
DetailsHeader ==
    <<Bold(Text("Name")), Bold(Text("File")), Bold(Text("Line")), Bold(Text("Analysis")),
      Bold(Text("Flow Warnings")), Bold(Text("Flow Errors")), Bold(Text("Checks")),
      Bold(Text("Proved Checks")), Bold(Text("% Proved"))>>

\* Lines 224-236.
DetailsRow(item) ==
    <<Plain(item.name),
      Plain(item.fileName),
      Plain(item.lineNumber),
      Plain(analysis_type(item)),
      IF item.flowAnalyzed THEN Plain(item.numFlowErrors) ELSE None,
      IF item.flowAnalyzed THEN Plain(item.numFlowWarnings) ELSE None,
      IF item.proved THEN Plain(item.numChecks) ELSE None,
      IF item.proved THEN Plain(item.numProvedChecks) ELSE None,
      IF item.proved /\ item.numChecks > 0
      THEN Percent(to_percent(item.numProvedChecks, item.numChecks))
      ELSE None>>

\* Lines 240-244.
SupprHeader ==
    <<Bold(Text("Name")), Bold(Text("File")), Bold(Text("Line")), Bold(Text("Column")),
      Bold(Text("Reason"))>>

\* Lines 250-254.
SupprRow(item, suppr) ==
    <<Plain(item.name), Plain(suppr.fileName), Plain(suppr.lineNumber),
      Plain(suppr.column), Plain(suppr.message)>>

\* Lines 222-223, 247-248: the items of the units i.., in order.
RECURSIVE ItemsFrom(_, _)
ItemsFrom(units, i) ==
    IF i > Len(units) THEN <<>>
    ELSE units[i].items \o ItemsFrom(units, i + 1)

\* Lines 249-255: the rows of the suppressions of one item.
SupprRowsOf(item) ==
    [k \in 1..Len(item.suppressions) |-> SupprRow(item, item.suppressions[k])]

\* Lines 247-255: the rows of the suppressions of the items i...
RECURSIVE SupprRowsFrom(_, _)
SupprRowsFrom(items, i) ==
    IF i > Len(items) THEN <<>>
    ELSE SupprRowsOf(items[i]) \o SupprRowsFrom(items, i + 1)

\* Lines 186-208: the Summary sheet, its rows from row 0 on.
SummarySheet(units) ==
    <<SummaryHeader>> \o
        [i \in 1..Len(units) |->
            SummaryRow(units[i], count_unit_totals(units[i]))]

\* Lines 210-237: the Details sheet.
DetailsSheet(items) ==
    <<DetailsHeader>> \o [i \in 1..Len(items) |-> DetailsRow(items[i])]

\* Lines 239-255: the Suppressed Messages sheet.
SupprSheet(items) == <<SupprHeader>> \o SupprRowsFrom(items, 1)

\* Lines 178-257: the workbook saved, its sheets by name.
save_results(res) ==
    [sheet \in {"Summary", "Details", "Suppressed Messages"} |->
        IF sheet = "Summary" THEN SummarySheet(res.units)
        ELSE IF sheet = "Details" THEN DetailsSheet(ItemsFrom(res.units, 1))
        ELSE SupprSheet(ItemsFrom(res.units, 1))]

\* Lines 37-43.
Start ==
    [results     |-> [numUnitsAnalyzed |-> None, units |-> <<>>],
     currentUnit |-> None,
     exc         |-> ""]

\* The loop over the lines i.. of a file.
RECURSIVE Loop(_, _, _)
Loop(st, lines, i) ==
    IF i > Len(lines) \/ st.exc # "" THEN st
    ELSE Loop(Step(st, lines[i]), lines, i + 1)

\* Lines 33-136, on the lines of the file: the results returned, or the
\* exception raised.
parse_gnatprove_report(lines) ==
    LET st == Loop(Start, lines, 1)
    IN  IF st.exc # "" THEN [exc |-> st.exc, results |-> None]
        ELSE [exc     |-> "",
              results |-> Some(SaveLast(st.results, st.currentUnit))]

(***************************************************************************)
(* The state of a call of parse_gnatprove_report.                          *)
(***************************************************************************)
VARIABLES
    results,      \* the dictionary built (lines 37-40)
    currentUnit,  \* the unit being read, or None (line 43)
    line,         \* the line last read by the loop (line 46)
    file,         \* "open" or "closed" (lines 42, 134)
    pc,           \* "loop", "finally", "return", "returned", "raised",
                  \* "saved"
    exc,          \* the exception raised, "" when none
    returned,     \* what the call returned, None before it returns
    nlines,       \* how many lines were read
    headers,      \* the lines read that unit_re matched, in order
    catPhase,     \* "off", or which report of a concatenation is read
    catA,         \* the lines of the first report of a concatenation
    catB,         \* the lines of the second
    book          \* the workbook save_results saved, None before

vars == <<results, currentUnit, line, file, pc, exc, returned, nlines,
          headers, catPhase, catA, catB, book>>

catVars == <<catPhase, catA, catB>>

\* Lines 37-43: the file is open, nothing is read.
Entered ==
    /\ results = Start.results
    /\ currentUnit = Start.currentUnit
    /\ exc = Start.exc
    /\ line = <<>>
    /\ file = "open"
    /\ pc = "loop"
    /\ returned = None
    /\ nlines = 0
    /\ headers = <<>>
    /\ catA = <<>>
    /\ catB = <<>>
    /\ book = None

Init == Entered /\ catPhase = "off"

\* The function's variables take the values the loop body leaves in st.
Becomes(st) ==
    /\ results' = st.results
    /\ currentUnit' = st.currentUnit
    /\ exc' = st.exc
    /\ pc' = IF st.exc = "" THEN "loop" ELSE "finally"

\* Lines 46-128: the loop reads line l and runs its body on it.
Read(l) ==
    /\ pc = "loop"
    /\ Becomes(Step([results |-> results, currentUnit |-> currentUnit,
                     exc |-> ""], l))
    /\ line' = l
    /\ nlines' = nlines + 1
    /\ headers' = IF "unit" \in Shapes(l) THEN Append(headers, l)
                  ELSE headers
    /\ UNCHANGED <<file, returned, book>>

ReadLine ==
    /\ nlines < MaxLines
    /\ \E l \in Lines : Read(l)
    /\ UNCHANGED catVars

\* Lines 130-131: the input has ended.
End ==
    /\ pc = "loop"
    /\ results' = SaveLast(results, currentUnit)
    /\ pc' = "finally"
    /\ UNCHANGED <<currentUnit, line, file, exc, returned, nlines, headers,
                   book>>

EndOfInput == End /\ UNCHANGED catVars

\* The file is closed after the loop and not in a finally clause: an
\* exception leaves it open.
FinallyOnSuccess ==
    /\ pc = "finally"
    /\ file' = IF exc = "" THEN "closed" ELSE file
    /\ pc' = IF exc = "" THEN "return" ELSE "raised"
    /\ UNCHANGED <<results, currentUnit, line, exc, returned, nlines,
                   headers, catVars, book>>

\* Lines 133-134: the file is closed, whether or not an exception is raised.
Finally ==
    /\ pc = "finally"
    /\ file' = "closed"
    /\ pc' = IF exc = "" THEN "return" ELSE "raised"
    /\ UNCHANGED <<results, currentUnit, line, exc, returned, nlines,
                   headers, catVars, book>>

\* Line 136.
Return ==
    /\ pc = "return"
    /\ returned' = Some(results)
    /\ pc' = "returned"
    /\ UNCHANGED <<results, currentUnit, line, file, exc, nlines, headers,
                   catVars, book>>

Next == ReadLine \/ EndOfInput \/ Finally \/ Return

Spec == Init /\ [][Next]_vars

(***************************************************************************)
(* The call runs to its end: the interpreter always takes the next step of *)
(* the one thread there is, and the file has finitely many lines.          *)
(***************************************************************************)
\* The lines of the file of a call followed to its end.
MaxLiveLines == 3

LiveReadLine ==
    /\ nlines < MaxLiveLines
    /\ \E l \in Lines : Read(l)
    /\ UNCHANGED catVars

LiveNext == LiveReadLine \/ EndOfInput \/ Finally \/ Return

SpecLive == Init /\ [][LiveNext]_vars /\ WF_vars(LiveNext)

(***************************************************************************)
(* The call on a file of lines with ill-formed counts.                     *)
(***************************************************************************)
\* The lines of such a file.
MaxFormatLines == 3

FormatReadLine ==
    /\ nlines < MaxFormatLines
    /\ \E l \in FormatLines : Read(l)
    /\ UNCHANGED catVars

FormatNext == FormatReadLine \/ EndOfInput \/ Finally \/ Return

SpecFormat == Init /\ [][FormatNext]_vars

(***************************************************************************)
(* The program run with --out (lines 274-277): the report returned is      *)
(* saved as a workbook.                                                    *)
(***************************************************************************)
\* The lines of the file of a run with --out.
MaxOutLines == 4

OutReadLine ==
    /\ nlines < MaxOutLines
    /\ \E l \in Lines : Read(l)
    /\ UNCHANGED catVars

\* Lines 276-277 and 178-257.
Save ==
    /\ pc = "returned"
    /\ book' = Some(save_results(returned[1]))
    /\ pc' = "saved"
    /\ UNCHANGED <<results, currentUnit, line, file, exc, returned, nlines,
                   headers, catVars>>

OutNext == OutReadLine \/ EndOfInput \/ Finally \/ Return \/ Save

SpecOut == Init /\ [][OutNext]_vars

(***************************************************************************)
(* The concatenation of two reports: one call reads the lines of a first   *)
(* report and then those of a second, as one file.                         *)
(***************************************************************************)
CatInit == Entered /\ catPhase = "A"

CatReadA ==
    /\ catPhase = "A"
    /\ nlines < MaxCatLines
    /\ \E l \in Lines : Read(l) /\ catA' = Append(catA, l)
    /\ UNCHANGED <<catPhase, catB>>

\* The first report ends; the file goes on with the second.
CatSwitch ==
    /\ catPhase = "A"
    /\ pc = "loop"
    /\ catPhase' = "B"
    /\ UNCHANGED <<results, currentUnit, line, file, pc, exc, returned,
                   nlines, headers, catA, catB, book>>

CatReadB ==
    /\ catPhase = "B"
    /\ nlines < MaxCatLines
    /\ \E l \in Lines : Read(l) /\ catB' = Append(catB, l)
    /\ UNCHANGED <<catPhase, catA>>

CatEnd ==
    /\ catPhase = "B"
    /\ End
    /\ catPhase' = "done"
    /\ UNCHANGED <<catA, catB>>

CatNext == CatReadA \/ CatSwitch \/ CatReadB \/ CatEnd \/ Finally \/ Return

SpecCat == CatInit /\ [][CatNext]_vars

(***************************************************************************)
(* Properties.                                                             *)
(***************************************************************************)
\* The items of the unit being read.
Cur == IF currentUnit = None THEN <<>> ELSE currentUnit[1].items

\* How many units were started so far.
Started == Len(results.units) + (IF currentUnit = None THEN 0 ELSE 1)

\* The step reads a line.
ReadsLine == nlines' = nlines + 1

\* Unit u is the one header line h starts.
StartedBy(u, h) ==
    LET m == Found(h).unit
    IN  /\ u.name = m.g[1]
        /\ u.numAnalyzed = int(m.g[2])
        /\ u.numTotal = int(m.g[3])

\* C1: when the parse completes, Report.units has one unit for each unit
\* header line read, the i-th unit being the one the i-th header line
\* started; while lines are read, the units saved and the one being read
\* are as many as the header lines read so far.
C1_UnitsFollowHeaders ==
    /\ pc = "loop" => Started = Len(headers)
    /\ returned # None =>
          /\ Len(returned[1].units) = Len(headers)
          /\ \A i \in 1..Len(headers) :
                 StartedBy(returned[1].units[i], headers[i])

C1_Witness ==
    /\ returned # None
    /\ Len(returned[1].units) >= 2
    /\ returned[1].units[1].name # returned[1].units[2].name

\* The step reads a line that the suppression pattern matches, and the
\* loop goes on.
ReadsSuppression ==
    ReadsLine /\ exc' = "" /\ "suppr_msg" \in Shapes(line')

\* C2: a suppression is attached to the item that was the last item of the
\* current unit when its line was read: that item gets the suppression at
\* the end of its list, and no unit saved in Report.units, no other item of
\* the current unit and nothing else of that item changes.
C2_SuppressionOnLastItem ==
    [][(ReadsSuppression /\ Cur # <<>>) =>
          /\ results' = results
          /\ Len(Cur') = Len(Cur)
          /\ \A i \in 1..(Len(Cur) - 1) : Cur'[i] = Cur[i]
          /\ Cur'[Len(Cur)] =
                 [Cur[Len(Cur)] EXCEPT !.suppressions =
                      Append(@, Suppression(Found(line').suppr_msg))]
      ]_vars

\* What holds of C2 for every line the suppression pattern matches: no unit
\* saved in Report.units and no item the current unit had before its last
\* one changes, and the suppression ends the list of the item that is last
\* after the line.
C2_SavedAndEarlierItemsKept ==
    [][ReadsSuppression =>
          /\ results' = results
          /\ Cur' # <<>>
          /\ \A i \in 1..(Len(Cur) - 1) : Cur'[i] = Cur[i]
          /\ Cur'[Len(Cur')].suppressions # <<>>
          /\ Cur'[Len(Cur')].suppressions[Len(Cur'[Len(Cur')].suppressions)]
                 = Suppression(Found(line').suppr_msg)
      ]_vars

\* C3: a suppression line read while there is no current item (currentUnit
\* is None, or its items list is empty) raises an exception; nothing is
\* attached anywhere.
C3_SuppressionNeedsItem ==
    [][(ReadsLine /\ "suppr_msg" \in Shapes(line') /\ Cur = <<>>) =>
          /\ exc' # ""
          /\ pc' = "finally"
          /\ results' = results
          /\ currentUnit' = currentUnit
      ]_vars

\* What holds of C3: a line that only the suppression pattern matches raises
\* TypeError when currentUnit is None and IndexError when its items list is
\* empty, and a call that raised returns nothing.
C3_OnlySuppressionNeedsItem ==
    /\ [][(ReadsLine /\ Shapes(line') = {"suppr_msg"} /\ Cur = <<>>) =>
             /\ exc' = (IF currentUnit = None THEN "TypeError"
                        ELSE "IndexError")
             /\ pc' = "finally"
             /\ results' = results
             /\ currentUnit' = currentUnit
       ]_vars
    /\ [](exc # "" => returned = None /\ pc \in {"finally", "raised"})

\* Every item of the report: of the units saved and of the one being read.
AllItems ==
    UNION {{u.items[j] : j \in 1..Len(u.items)} :
               u \in {results.units[i] : i \in 1..Len(results.units)}}
        \cup {Cur[j] : j \in 1..Len(Cur)}

\* C4 as stated: every proved item has numProvedChecks <= numChecks,
\* whatever P and C its line gives.
C4_ProvedAtMostChecks ==
    \A it \in AllItems : it.proved => it.numProvedChecks <= it.numChecks

\* The step appends an item to the unit being read.
AppendsItem ==
    /\ ReadsLine
    /\ exc' = ""
    /\ currentUnit # None
    /\ results' = results
    /\ Len(Cur') = Len(Cur) + 1

\* C4, amended: an item that is appended proved has numProvedChecks <=
\* numChecks unless its line has a not-proved clause "not proved, P checks
\* out of C proved" with P > C; the parser accepts that line, and the item
\* then has numProvedChecks = P and numChecks = C.
C4_ProvedAtMostChecksUnlessLineSaysMore ==
    [][AppendsItem =>
          LET it == Cur'[Len(Cur')]
              np == Found(line').not_proved
          IN  it.proved =>
                 \/ it.numProvedChecks <= it.numChecks
                 \/ /\ np.ok
                    /\ int(np.g[1]) > int(np.g[2])
                    /\ it.numProvedChecks = int(np.g[1])
                    /\ it.numChecks = int(np.g[2])
      ]_vars

C4_Witness ==
    /\ pc = "loop"
    /\ Cur # <<>>
    /\ Found(line).not_proved.ok
    /\ Cur[Len(Cur)].proved
    /\ Cur[Len(Cur)].numProvedChecks = 5
    /\ Cur[Len(Cur)].numChecks = 2

\* The trailing clauses found in line l.
Clauses(l) ==
    {c \in {"flow", "proved", "not_proved"} : Found(l)[c].ok}

\* The line last read was read as an item.
ReadAsItem == pc = "loop" /\ (Found(line).file.ok \/ Found(line).gen_file.ok)

\* C5 as stated: at most one of the three trailing clauses is found in an
\* item line.
C5_OneClausePerLine == ReadAsItem => Cardinality(Clauses(line)) <= 1

\* C5, amended: the proved clause and the not-proved clause are never both
\* found in one item line; the flow clause may be found together with
\* either of them, and the item is then both flow analyzed and proved.
C5_ProvedClausesExclusive ==
    ReadAsItem =>
        /\ ~({"proved", "not_proved"} \subseteq Clauses(line))
        /\ Cur # <<>>
        /\ Cur[Len(Cur)].flowAnalyzed = ("flow" \in Clauses(line))
        /\ Cur[Len(Cur)].proved =
               (Clauses(line) \cap {"proved", "not_proved"} # {})

C5_Witness ==
    /\ ReadAsItem
    /\ Clauses(line) = {"flow", "proved"}
    /\ Cur[Len(Cur)].flowAnalyzed
    /\ Cur[Len(Cur)].proved

\* How many suppressions the items of the current unit hold.
CurSuppressions ==
    IF currentUnit = None THEN 0 ELSE count_unit_totals(currentUnit[1])[5]

\* What the step did to the state, of the four things a line can cause.
Effects ==
    {e \in {"summary", "unit", "item", "suppression"} :
        \/ e = "summary" /\ results'.numUnitsAnalyzed # results.numUnitsAnalyzed
        \/ e = "unit" /\ Started' > Started
        \/ e = "item" /\ Started' = Started /\ Len(Cur') > Len(Cur)
        \/ e = "suppression" /\ Started' = Started
              /\ CurSuppressions' > CurSuppressions}

\* C6: a line causes at most one of: numUnitsAnalyzed set, a unit started,
\* an item appended, a suppression appended.
C6_OneEffectPerLine == [][ReadsLine => Cardinality(Effects) <= 1]_vars

\* C7 as stated: a line in the shape of a pattern with a word where a count
\* is expected ends the parse with an exception.
C7_BadCountIsFatal ==
    [][(ReadsLine /\ line' \in BadCountLines) => exc' # ""]_vars

\* The lines with a word where a count is expected that no pattern
\* matches: the summary, the unit header and the plain suppression.
BadIgnoredLines == BadSummaryLines \cup BadHeaderLines \cup BadSupprLines

\* Those an item pattern matches: the item lines, and the suppression
\* whose message reads like the tail of an item line.
BadItemLines == BadClauseLines \cup BadFlowLines \cup BadSupprItemLines

\* The item appended by the step.
Appended == Cur'[Len(Cur')]

\* The item appended has no clause: both flags FALSE, the four counts 0.
AppendedBare ==
    /\ ~Appended.flowAnalyzed
    /\ ~Appended.proved
    /\ Appended.numFlowErrors = 0
    /\ Appended.numFlowWarnings = 0
    /\ Appended.numChecks = 0
    /\ Appended.numProvedChecks = 0

\* The texts the item last appended and its last suppression hold as line
\* numbers and column.
KeptNumbers ==
    {Appended.lineNumber}
        \cup {Appended.instLineNumber[i] :
                  i \in 1..Len(Appended.instLineNumber)}
        \cup {Appended.suppressions[i].lineNumber :
                  i \in 1..Len(Appended.suppressions)}
        \cup {Appended.suppressions[i].column :
                  i \in 1..Len(Appended.suppressions)}

\* C7, amended: a line in the shape of a pattern with a word where a count
\* is expected is no format error: the pattern does not match it, int() is
\* never given the word, and the line is handled as the other patterns
\* take it.  Such a summary, unit header or suppression that no pattern
\* matches is ignored.  Such an item line is read as an item without the
\* clause (its flag FALSE, its counts 0; a well-formed clause of the line
\* still applies), and so is such a suppression whose message reads
\* " at F:N", which file_re matches; being read as an item raises TypeError
\* when there is no current unit, as for any item line.  The one format
\* error is a count of more digits than int() converts at a place where
\* the program converts it (the summary, the two counts of a unit header,
\* the counts of the three clauses of an item line): its line ends the
\* parse with ValueError and no other line does; the line number of an
\* item and the line number and column of a suppression are kept as text,
\* however long.
C7_BadCountIsNotMatched ==
    /\ [][(ReadsLine /\ line' \in LongConvertedLines) =>
             exc' = "ValueError" /\ pc' = "finally" /\ returned' = None]_vars
    /\ [][(ReadsLine /\ exc' = "ValueError") =>
             line' \in LongConvertedLines]_vars
    /\ [][(ReadsLine /\ line' \in LongTextLines /\ exc' = "") =>
             Cur' # <<>> /\ LongNumber \in KeptNumbers]_vars
    /\ [][(ReadsLine /\ line' \in BadIgnoredLines) =>
             /\ exc' = ""
             /\ pc' = "loop"
             /\ results' = results
             /\ currentUnit' = currentUnit
       ]_vars
    /\ [][(ReadsLine /\ line' \in BadItemLines /\ currentUnit = None) =>
             /\ exc' = "TypeError"
             /\ pc' = "finally"
             /\ results' = results
             /\ currentUnit' = None
       ]_vars
    /\ [][(ReadsLine /\ line' \in BadItemLines /\ currentUnit # None) =>
             /\ AppendsItem
             /\ \A i \in 1..Len(Cur) : Cur'[i] = Cur[i]
             /\ Appended.suppressions = <<>>
             /\ line' \in BadClauseLines => AppendedBare
             /\ line' \in BadFlowLines =>
                   /\ ~Appended.flowAnalyzed
                   /\ Appended.numFlowErrors = 0
                   /\ Appended.numFlowWarnings = 0
                   /\ Appended.proved
                   /\ Appended.numChecks = 3
                   /\ Appended.numProvedChecks = 3
             /\ line' \in BadSupprItemLines =>
                   /\ AppendedBare
                   /\ Appended.name = Text("  a.adb:x:2: m")
                   /\ Appended.fileName = Text("b.adb")
                   /\ Appended.lineNumber = Text("9")
                   /\ Appended.instFileName = None
       ]_vars

\* The suppression with a word for its line number, whose message reads
\* like the tail of an item line, was read as an item of the current unit,
\* after an item whose line number has 4301 digits.
C7_Witness ==
    /\ pc = "loop"
    /\ line \in BadSupprItemLines
    /\ Len(Cur) = 2
    /\ Cur[1].lineNumber = LongNumber
    /\ Cur[2].name = Text("  a.adb:x:2: m")
    /\ ~Cur[2].proved

\* C8: a line in none of the four shapes raises nothing and leaves
\* Report.numUnitsAnalyzed, Report.units and currentUnit with its items and
\* their suppressions as they were.
C8_OtherLinesIgnored ==
    [][(ReadsLine /\ line' \in OtherLines) =>
          /\ exc' = ""
          /\ pc' = "loop"
          /\ results' = results
          /\ currentUnit' = currentUnit
      ]_vars

C8_Witness ==
    /\ pc = "loop"
    /\ line \in OtherLines
    /\ results.units # <<>>
    /\ Cur # <<>>

\* The units of a report parsed on its own.
UnitsOf(lines) == parse_gnatprove_report(lines).results[1].units

\* Both reports of the concatenation parse on their own.
BothValid ==
    /\ parse_gnatprove_report(catA).exc = ""
    /\ parse_gnatprove_report(catB).exc = ""

\* C9: when two reports each parse on their own, parsing the first followed
\* by the second raises nothing, and its unit list is the unit list of the
\* first followed by the unit list of the second.
C9_Concatenation ==
    (catPhase \in {"B", "done"} /\ BothValid) =>
        /\ exc = ""
        /\ returned # None =>
              returned[1].units = UnitsOf(catA) \o UnitsOf(catB)

C9_Witness ==
    /\ catPhase = "done"
    /\ returned # None
    /\ BothValid
    /\ UnitsOf(catA) # <<>>
    /\ UnitsOf(catB) # <<>>
    /\ \E i \in 1..Len(returned[1].units) :
           returned[1].units[i].items # <<>>

\* C10: a unit saved in Report.units is never changed again, by any line or
\* by the end of the input: it stays at its place, with its name, its
\* counts, its items and their suppressions.
C10_SavedUnitsFrozen ==
    [][\A i \in 1..Len(results.units) :
          /\ i <= Len(results'.units)
          /\ results'.units[i] = results.units[i]
      ]_vars

C10_Witness ==
    /\ pc = "loop"
    /\ results.units # <<>>
    /\ results.units[1].items # <<>>
    /\ Cur # <<>>
    /\ CurSuppressions > 0

\* C11: once parse_gnatprove_report has opened the file, the file is
\* eventually closed, and it is closed whenever the call has left its try
\* statement: to return after the end of the input, or with the exception
\* a suppression line with no current item or an item line with no current
\* unit raised.
C11_FileEventuallyClosed ==
    /\ (file = "open") ~> (file = "closed")
    /\ [](pc \in {"return", "returned", "raised"} => file = "closed")
    /\ [][file = "closed" => file' = "closed"]_vars

C11_Witness ==
    /\ pc = "raised"
    /\ exc = "TypeError"
    /\ line \in ItemLines
    /\ file = "closed"

\* Every unit of the report: the units saved and the one being read.
AllUnits ==
    {results.units[i] : i \in 1..Len(results.units)}
        \cup {currentUnit[i] : i \in 1..Len(currentUnit)}

\* r is the proof ratio of num proved checks out of denom checks.
IsRatio(r, num, denom) ==
    IF denom = 0 THEN r = [num |-> 1, den |-> 1]
    ELSE r.den > 0 /\ r.num * denom = num * r.den

\* The rows of a sheet of the workbook saved, without the header row.
RowsOf(sheet) == SubSeq(book[1][sheet], 2, Len(book[1][sheet]))

\* The row's cell in column col (counted from 0) holds a proof ratio of
\* the counts in columns col - 1 and col - 2, in the percent style, when
\* the checks are more than 0, and nothing otherwise.
RatioCell(row, col) ==
    IF row[col - 1] # None /\ row[col - 1][1].value > 0
    THEN /\ row[col + 1] # None
         /\ row[col + 1][1].style = "percent"
         /\ IsRatio(row[col + 1][1].value,
                    row[col][1].value, row[col - 1][1].value)
    ELSE row[col + 1] = None

\* C12: to_percent(num, denom) is exactly 1 when denom is 0 and is
\* num/denom otherwise, for the proved checks and the checks of every item
\* and of the totals of every unit the parser produces; the ratios
\* save_results writes are these.
C12_ProofRatio ==
    /\ \A it \in AllItems :
           IsRatio(to_percent(it.numProvedChecks, it.numChecks),
                   it.numProvedChecks, it.numChecks)
    /\ \A u \in AllUnits :
           IsRatio(to_percent(count_unit_totals(u)[4],
                              count_unit_totals(u)[3]),
                   count_unit_totals(u)[4], count_unit_totals(u)[3])
    /\ book # None =>
           /\ \A i \in 1..Len(RowsOf("Summary")) :
                  RatioCell(RowsOf("Summary")[i], 6)
           /\ \A i \in 1..Len(RowsOf("Details")) :
                  RatioCell(RowsOf("Details")[i], 8)

\* A workbook is saved of a report with an item of 2 proved checks out of
\* 5 and a unit with no checks.
C12_Witness ==
    /\ book # None
    /\ \E it \in AllItems : it.numChecks = 5 /\ it.numProvedChecks = 2
    /\ \E u \in AllUnits : count_unit_totals(u)[3] = 0
    /\ \E i \in 1..Len(RowsOf("Details")) :
           RowsOf("Details")[i][9] =
               Some([value |-> [num |-> 2, den |-> 5], style |-> "percent"])

\* The sum of a sequence of numbers.
RECURSIVE Sum(_)
Sum(ns) ==
    IF ns = <<>> THEN 0
    ELSE Sum(SubSeq(ns, 1, Len(ns) - 1)) + ns[Len(ns)]

\* The five totals of a unit, each the sum over its items.
SumsOf(u) ==
    <<Sum([i \in 1..Len(u.items) |-> u.items[i].numFlowErrors]),
      Sum([i \in 1..Len(u.items) |-> u.items[i].numFlowWarnings]),
      Sum([i \in 1..Len(u.items) |-> u.items[i].numChecks]),
      Sum([i \in 1..Len(u.items) |-> u.items[i].numProvedChecks]),
      Sum([i \in 1..Len(u.items) |-> Len(u.items[i].suppressions)])>>

\* The values of the row's cells in the columns cols (counted from 0).
ValuesIn(row, cols) == [k \in 1..Len(cols) |-> row[cols[k] + 1][1].value]

\* C13: for every unit of a finished report count_unit_totals returns the
\* sums over the unit's items of numFlowErrors, numFlowWarnings, numChecks
\* and numProvedChecks and the number of their suppressions, all zeros
\* for a unit with no items; the Summary sheet holds these totals, and
\* saving leaves the report as it was returned.
C13_UnitTotals ==
    /\ [](returned # None =>
             \A i \in 1..Len(returned[1].units) :
                 /\ count_unit_totals(returned[1].units[i])
                        = SumsOf(returned[1].units[i])
                 /\ returned[1].units[i].items = <<>> =>
                        count_unit_totals(returned[1].units[i])
                            = <<0, 0, 0, 0, 0>>
                 /\ book # None =>
                        ValuesIn(RowsOf("Summary")[i], <<2, 3, 4, 5, 7>>)
                            = SumsOf(returned[1].units[i]))
    /\ [][returned # None => returned' = returned]_vars

\* A workbook is saved of a report with a unit of two items, not all of
\* its checks proved, and a unit with no items.
C13_Witness ==
    /\ book # None
    /\ \E i, j \in 1..Len(returned[1].units) :
           /\ Len(returned[1].units[i].items) = 2
           /\ count_unit_totals(returned[1].units[i])[3] = 8
           /\ count_unit_totals(returned[1].units[i])[4] = 5
           /\ count_unit_totals(returned[1].units[i])[1] = 2
           /\ count_unit_totals(returned[1].units[i])[2] = 1
           /\ returned[1].units[j].items = <<>>

\* The item lines that end with a proof clause, with the counts P and C the
\* clause states: "proved (C checks)" states P = C, and "not proved, P
\* checks out of C proved" states P and C.
StatedProof ==
    [l \in {Text("  G at a.adb:3 flow analyzed (0 errors and 1 warnings) and proved (3 checks)\n"),
            Text("  T at a.adb:8 not proved, 1 checks out of 2 proved (4 checks)\n"),
            Text("  Q at g.ads:6, instantiated at a.adb:7 proved (1 checks)\n"),
            Text("  H at a.adb:4 flow analyzed (2 errors and 0 warnings) and not proved, 2 checks out of 5 proved\n"),
            Text("  K at a.adb:5 not proved, 5 checks out of 2 proved\n")} |->
        IF l = Text("  G at a.adb:3 flow analyzed (0 errors and 1 warnings) and proved (3 checks)\n")
        THEN [P |-> 3, C |-> 3]
        ELSE IF l = Text("  T at a.adb:8 not proved, 1 checks out of 2 proved (4 checks)\n")
        THEN [P |-> 4, C |-> 4]
        ELSE IF l = Text("  Q at g.ads:6, instantiated at a.adb:7 proved (1 checks)\n")
        THEN [P |-> 1, C |-> 1]
        ELSE IF l = Text("  H at a.adb:4 flow analyzed (2 errors and 0 warnings) and not proved, 2 checks out of 5 proved\n")
        THEN [P |-> 2, C |-> 5]
        ELSE [P |-> 5, C |-> 2]]

\* C14: the item appended for a line that ends with "proved (C checks)"
\* has proved = TRUE and numChecks = numProvedChecks = C; the item appended
\* for a line that ends with "not proved, P checks out of C proved" has
\* proved = TRUE, numChecks = C and numProvedChecks = P.
C14_ProofClauseCounts ==
    [][(ReadsLine /\ exc' = "" /\ line' \in DOMAIN StatedProof) =>
          /\ AppendsItem
          /\ Cur'[Len(Cur')].proved
          /\ Cur'[Len(Cur')].numChecks = StatedProof[line'].C
          /\ Cur'[Len(Cur')].numProvedChecks = StatedProof[line'].P
      ]_vars

\* The item of "not proved, 2 checks out of 5 proved" is in a report
\* returned, after the item of "proved (3 checks)".
C14_Witness ==
    /\ returned # None
    /\ \E i \in 1..Len(returned[1].units) :
           /\ Len(returned[1].units[i].items) >= 2
           /\ returned[1].units[i].items[1].proved
           /\ returned[1].units[i].items[1].numChecks = 3
           /\ returned[1].units[i].items[1].numProvedChecks = 3
           /\ returned[1].units[i].items[2].proved
           /\ returned[1].units[i].items[2].numChecks = 5
           /\ returned[1].units[i].items[2].numProvedChecks = 2

\* The item lines that end with no flow or proof clause: text that is no
\* clause, a proof clause with a word for its count, and the suppression
\* that reads like an item line.
NoClauseItemLines ==
    {Text("  P at a.adb:1 skipped\n")} \cup BadClauseLines \cup ItemSupprLines

\* The counts of an item are backed by its flags.
CountsBacked(it) ==
    /\ it.numFlowErrors >= 0
    /\ it.numFlowWarnings >= 0
    /\ it.numChecks >= 0
    /\ it.numProvedChecks >= 0
    /\ ~it.flowAnalyzed => it.numFlowErrors = 0 /\ it.numFlowWarnings = 0
    /\ ~it.proved => it.numChecks = 0 /\ it.numProvedChecks = 0

\* C15: in every state the counts of every item are not negative, the flow
\* counts are 0 unless flowAnalyzed and the check counts are 0 unless
\* proved; an item line with no trailing clause, read while a unit is
\* being read, appends an item with both flags FALSE and the four counts 0.
C15_CountsBackedByFlags ==
    /\ [](\A it \in AllItems : CountsBacked(it))
    /\ [][(ReadsLine /\ line' \in NoClauseItemLines /\ currentUnit # None) =>
             /\ AppendsItem
             /\ \A i \in 1..Len(Cur) : Cur'[i] = Cur[i]
             /\ ~Cur'[Len(Cur')].flowAnalyzed
             /\ ~Cur'[Len(Cur')].proved
             /\ Cur'[Len(Cur')].numFlowErrors = 0
             /\ Cur'[Len(Cur')].numFlowWarnings = 0
             /\ Cur'[Len(Cur')].numChecks = 0
             /\ Cur'[Len(Cur')].numProvedChecks = 0
       ]_vars

\* An item with no clause was appended after an item with flow counts and
\* check counts.
C15_Witness ==
    /\ pc = "loop"
    /\ line = Text("  P at a.adb:1 skipped\n")
    /\ Len(Cur) >= 2
    /\ Cur[Len(Cur)].name = Text("P")
    /\ ~Cur[Len(Cur)].flowAnalyzed
    /\ ~Cur[Len(Cur)].proved
    /\ Cur[1].flowAnalyzed
    /\ Cur[1].numFlowErrors > 0
    /\ Cur[1].numChecks > 0

\* The units of the report in the order they were started: the units saved
\* and then the one being read.
UnitSeq == results.units \o currentUnit

\* Item b is item a but for its suppressions, and the suppressions of a
\* are the first of those of b.
GrownFrom(a, b) ==
    /\ [b EXCEPT !.suppressions = <<>>] = [a EXCEPT !.suppressions = <<>>]
    /\ Len(b.suppressions) >= Len(a.suppressions)
    /\ SubSeq(b.suppressions, 1, Len(a.suppressions)) = a.suppressions

\* C16: once an item is in the items of a unit, no step changes its name,
\* its file and line fields, flowAnalyzed, proved or its four counts, and
\* it stays at its place in its unit; its suppressions list changes only
\* by suppressions being appended at its end.
C16_ItemsFrozenButSuppressions ==
    [][\A u \in 1..Len(UnitSeq) : \A i \in 1..Len(UnitSeq[u].items) :
          /\ u <= Len(UnitSeq')
          /\ i <= Len(UnitSeq'[u].items)
          /\ GrownFrom(UnitSeq[u].items[i], UnitSeq'[u].items[i])
      ]_vars

\* An item got a second suppression after its first, and the item before
\* it has none.
C16_Witness ==
    /\ pc = "loop"
    /\ line \in SupprLines
    /\ Len(Cur) = 2
    /\ Cur[1].suppressions = <<>>
    /\ Len(Cur[2].suppressions) = 2
    /\ Cur[2].suppressions[2].message = Text("ok")

\* The count each summary line states.
StatedUnits ==
    [l \in SummaryLines |-> IF l = Text("Analyzed 3 units\n") THEN 3 ELSE 12]

\* The step reads a summary line.
ReadsSummary == ReadsLine /\ line' \in DOMAIN StatedUnits

\* C17: numUnitsAnalyzed is None when the parse starts; a step that reads
\* a summary line sets it to the count of that line, raises nothing and
\* leaves Report.units and currentUnit with its items as they were; no
\* other step changes it.  So it is None until the first summary line and
\* from then on the count of the summary line read last.
C17_SummarySetsCount ==
    /\ results.numUnitsAnalyzed = None
    /\ [][ReadsSummary =>
             /\ exc' = ""
             /\ results'.numUnitsAnalyzed = Some(StatedUnits[line'])
             /\ results'.units = results.units
             /\ currentUnit' = currentUnit
       ]_vars
    /\ [][~ReadsSummary =>
             results'.numUnitsAnalyzed = results.numUnitsAnalyzed
       ]_vars

\* A summary line was read as the fourth line or later, while a unit with
\* an item is being read, and its count is the one held.
C17_Witness ==
    /\ pc = "loop"
    /\ line = Text("Analyzed 3 units\n")
    /\ results.numUnitsAnalyzed = Some(3)
    /\ headers # <<>>
    /\ Cur # <<>>
    /\ nlines >= 4

\* Every line an item pattern matches at its start.
AllItemLines ==
    PlainItemLines \cup GenericItemLines \cup BadClauseLines
        \cup ItemSupprLines

\* C18: an item line in the generic form appends an item with the name,
\* file and line before ", instantiated at" and with instFileName and
\* instLineNumber the file and line after it; any other item line appends
\* an item with both None; each item line read while a unit is being read
\* appends exactly one item, after the items there were; and in every
\* state instFileName is None exactly when instLineNumber is.
C18_GenericFormFirst ==
    /\ [](\A it \in AllItems :
              (it.instFileName = None) <=> (it.instLineNumber = None))
    /\ [][(ReadsLine /\ line' \in AllItemLines /\ currentUnit # None) =>
             /\ AppendsItem
             /\ \A i \in 1..Len(Cur) : GrownFrom(Cur[i], Cur'[i])
             /\ IF line' \in GenericItemLines
                THEN /\ Cur'[Len(Cur')].name = Text("Q")
                     /\ Cur'[Len(Cur')].fileName = Text("g.ads")
                     /\ Cur'[Len(Cur')].lineNumber = Text("6")
                     /\ Cur'[Len(Cur')].instFileName = Some(Text("a.adb"))
                     /\ Cur'[Len(Cur')].instLineNumber = Some(Text("7"))
                ELSE /\ Cur'[Len(Cur')].instFileName = None
                     /\ Cur'[Len(Cur')].instLineNumber = None
       ]_vars

\* The item of a generic instantiation was appended after a plain item.
C18_Witness ==
    /\ pc = "loop"
    /\ line \in GenericItemLines
    /\ Len(Cur) = 2
    /\ Cur[1].instFileName = None
    /\ Cur[1].instLineNumber = None
    /\ Cur[2].instFileName # None
    /\ Cur[2].instLineNumber # None

\* C19: an item line read while currentUnit is None raises TypeError at
\* the append to currentUnit's items: the loop ends there with the report
\* as it was, no item in it, and a call that raised never returns a
\* report and saves no workbook.
C19_ItemNeedsUnit ==
    /\ [][(ReadsLine /\ line' \in AllItemLines /\ currentUnit = None) =>
             /\ exc' = "TypeError"
             /\ pc' = "finally"
             /\ results' = results
             /\ results'.units = <<>>
             /\ currentUnit' = None
       ]_vars
    /\ [][exc # "" =>
             /\ exc' = exc
             /\ returned' = None
             /\ book' = None
             /\ pc' \in {"finally", "raised"}
       ]_vars

\* The call has ended with the TypeError of an item line read as the
\* second line, with no unit header before it.
C19_Witness ==
    /\ pc = "raised"
    /\ exc = "TypeError"
    /\ line \in AllItemLines
    /\ nlines = 2
    /\ headers = <<>>
    /\ returned = None

\* The place in a row of the Details sheet of the column with this title.
DetailsColumn(title) ==
    CHOOSE c \in 1..Len(book[1]["Details"][1]) :
        book[1]["Details"][1][c][1].value = title

\* The items of the report returned, in the order of their rows.
ReturnedItems == ItemsFrom(returned[1].units, 1)

\* C20: in the Details sheet saved, the row of every flow-analyzed item
\* holds the item's numFlowErrors in the column titled 'Flow Errors' and
\* its numFlowWarnings in the column titled 'Flow Warnings', and the row
\* of every other item has both cells empty.
C20_FlowCellsUnderHeaders ==
    book # None =>
        /\ Len(RowsOf("Details")) = Len(ReturnedItems)
        /\ \A i \in 1..Len(ReturnedItems) :
               IF ReturnedItems[i].flowAnalyzed
               THEN /\ RowsOf("Details")[i][DetailsColumn(Text("Flow Errors"))]
                           # None
                    /\ RowsOf("Details")[i][DetailsColumn(Text("Flow Errors"))][1]
                           .value = ReturnedItems[i].numFlowErrors
                    /\ RowsOf("Details")[i][DetailsColumn(Text("Flow Warnings"))]
                           # None
                    /\ RowsOf("Details")[i][DetailsColumn(Text("Flow Warnings"))][1]
                           .value = ReturnedItems[i].numFlowWarnings
               ELSE /\ RowsOf("Details")[i][DetailsColumn(Text("Flow Errors"))]
                           = None
                    /\ RowsOf("Details")[i][DetailsColumn(Text("Flow Warnings"))]
                           = None

\* What holds of C20: the row of a flow-analyzed item holds numFlowErrors
\* in column 4, which is titled 'Flow Warnings', and numFlowWarnings in
\* column 5, which is titled 'Flow Errors'; the row of any other item has
\* both cells empty.
C20_FlowCellsSwapped ==
    book # None =>
        /\ DetailsColumn(Text("Flow Warnings")) = 5
        /\ DetailsColumn(Text("Flow Errors")) = 6
        /\ Len(RowsOf("Details")) = Len(ReturnedItems)
        /\ \A i \in 1..Len(ReturnedItems) :
               IF ReturnedItems[i].flowAnalyzed
               THEN /\ RowsOf("Details")[i][5]
                           = Plain(ReturnedItems[i].numFlowErrors)
                    /\ RowsOf("Details")[i][6]
                           = Plain(ReturnedItems[i].numFlowWarnings)
               ELSE /\ RowsOf("Details")[i][5] = None
                    /\ RowsOf("Details")[i][6] = None
=============================================================================
